---- MODULE Spec2Model ----
(***************************************************************************)
(* Billing and payment settlement of the clinic backend.                   *)
(*                                                                         *)
(* The persisted tables (Price, Appointment, LabRequest, Invoice,          *)
(* InvoiceItem, Payment) are the shared state.  Each request slot runs one *)
(* HTTP handler at a time; a handler moves one step per database           *)
(* statement it awaits.  The transactional settlement handlers of          *)
(* cashier.controller.js run inside prisma.$transaction: their writes go   *)
(* to a private workspace that becomes visible at commit and is dropped on *)
(* a throw; the database is PostgreSQL at its default READ COMMITTED       *)
(* level, so a plain read takes no lock and an UPDATE takes the row lock   *)
(* until the transaction ends.                                             *)
(***************************************************************************)
EXTENDS Integers, Sequences, FiniteSets, Bags, TLC

\* ------------------------------------------------------------------ bounds
NumProcs == 2        \* request slots that can be in flight at once
NumAppts == 1        \* appointments that exist
MaxAmount == 2       \* largest money amount
MaxInvoices == 2     \* values the Invoice id sequence may hand out
MaxManual == 1       \* invoices made through POST /billing/invoices

Procs == 1..NumProcs
ApptIds == 1..NumAppts
LabIds == 1..NumAppts
Amounts == 0..MaxAmount
InvoiceIds == 1..MaxInvoices
PayAmounts == (0 - 1)..MaxAmount   \* amounts a payment request may carry

NoId == 0            \* a missing / null / undefined id
NoCashier == 0       \* Payment.cashierId IS NULL

\* ------------------------------------------------------ reference data
\* Doctor rows (id -> name); appointment a was booked with DoctorOf(a)
\* for patient PatientOf(a).
DoctorName(d) == IF d % 2 = 1 THEN "Dr. Lee" ELSE "Dr. Kim"
DoctorOf(a) == a
PatientOf(a) == a

\* req.user.id of the cashier behind request slot p
CashierOf(p) == p

\* Template strings of the invoice line descriptions
ApptDescription(doctorName) == <<"Appointment with ", doctorName>>
LabDescription(priceName) == <<"Lab Test: ", priceName>>

VARIABLES
  prices,        \* Price table: id -> [type, code, name, amount, active]
  appts,         \* Appointment table: id -> [patientId, doctorId, isPaid]
  labs,          \* LabRequest table: id -> [appointmentId, priceId, isPaid, status]
  invoices,      \* Invoice table: id -> [patientId, totalAmount, isPaid]
  invoiceItems,  \* InvoiceItem rows by invoiceId: id -> Seq([description, amount])
  payments,      \* Payment table: bag of [invoiceId, amount, cashierId]
  invoiceSeq,    \* next value of the Invoice id sequence (never rolled back)
  origin,        \* history: invoice id -> the event whose settlement created it
  overlapped,    \* history: events that had two settlement calls in flight at once
  pc,            \* per slot: position inside the running handler
  call,          \* per slot: [kind, id] of the running handler
  local,         \* per slot: the handler's local variables
  ws,            \* per slot: uncommitted writes of its transaction
  response       \* the HTTP response sent by the last step, if it sent one

dbvars == <<prices, appts, labs, invoices, invoiceItems, payments>>
ledger == <<invoices, invoiceItems, payments>>
vars == <<prices, appts, labs, invoices, invoiceItems, payments, invoiceSeq,
          origin, overlapped, pc, call, local, ws, response>>

\* --------------------------------------------------------------- helpers
RECURSIVE SumSeq(_)
SumSeq(s) == IF s = <<>> THEN 0 ELSE s[1].amount + SumSeq(Tail(s))

RECURSIVE SumBag(_)
SumBag(b) ==
  IF DOMAIN b = {} THEN 0
  ELSE LET r == CHOOSE x \in DOMAIN b : TRUE
       IN  r.amount * b[r] + SumBag([x \in DOMAIN b \ {r} |-> b[x]])

\* rows of bag b that belong to invoice i
PaymentsOf(b, i) ==
  LET D == {r \in DOMAIN b : r.invoiceId = i} IN [r \in D |-> b[r]]

EmptyFn == [x \in {} |-> 0]

NoLocal == [amount |-> 0, name |-> "", patientId |-> NoId, invoiceId |-> NoId,
            totalPaid |-> 0, totalAmount |-> 0, type |-> "", code |-> ""]
NoWs == [marked |-> FALSE, invoices |-> EmptyFn, items |-> EmptyFn,
         payments |-> EmptyBag]
NoRet == [eventPaid |-> FALSE, invoiceId |-> NoId, patientId |-> NoId,
          totalAmount |-> 0, invoicePaid |-> FALSE, items |-> <<>>,
          payAmount |-> 0, payCashier |-> NoCashier]
NoCall == [kind |-> "none", id |-> NoId]
NoResponse == [slot |-> 0, call |-> NoCall, result |-> "none", payload |-> NoRet]

\* What a client sees: the prisma client sees the committed tables, the tx
\* client of slot p sees them plus the transaction's own writes.
Merge(f, g) == [x \in DOMAIN f \cup DOMAIN g |-> IF x \in DOMAIN g THEN g[x] ELSE f[x]]
TxInvoices(p) == Merge(invoices, ws[p].invoices)
TxPayments(p) == payments (+) ws[p].payments

\* ------------------------------------------------------------------ Init
ApptFee(amt, act) == [type |-> "APPOINTMENT", code |-> "CONSULT",
                      name |-> "Consultation", amount |-> amt, active |-> act]
LabFee(c, n, amt) == [type |-> "LAB", code |-> c, name |-> n, amount |-> amt,
                      active |-> TRUE]

\* Catalogs an admin has set up with createPrice: an optional appointment
\* fee (id 1) and two lab examinations (ids 2, 3).
LabCatalog(a) == (2 :> LabFee("GLU", "Glucose Test", a))
                 @@ (3 :> LabFee("XRAY", "X-Ray", MaxAmount))
SeedCatalogs ==
  {LabCatalog(1)}
  \cup {(1 :> ApptFee(f, TRUE)) @@ LabCatalog(1) : f \in Amounts}
  \cup {(1 :> ApptFee(MaxAmount, FALSE)) @@ LabCatalog(a) : a \in Amounts}
  \cup {(1 :> ApptFee(MaxAmount, TRUE)) @@ LabCatalog(1)
        @@ (4 :> [type |-> "APPOINTMENT", code |-> "FOLLOWUP", name |-> "Follow-up",
                  amount |-> 1, active |-> FALSE])}

Init ==
  /\ prices \in SeedCatalogs
  /\ appts = [a \in ApptIds |->
                [patientId |-> PatientOf(a), doctorId |-> DoctorOf(a), isPaid |-> FALSE]]
  /\ labs = [l \in LabIds |->
               [appointmentId |-> l, priceId |-> 2, isPaid |-> FALSE,
                status |-> "REQUESTED", result |-> ""]]
  /\ invoices = EmptyFn
  /\ invoiceItems = EmptyFn
  /\ payments = EmptyBag
  /\ invoiceSeq = 1
  /\ origin = EmptyFn
  /\ overlapped = {}
  /\ pc = [p \in Procs |-> "idle"]
  /\ call = [p \in Procs |-> NoCall]
  /\ local = [p \in Procs |-> NoLocal]
  /\ ws = [p \in Procs |-> NoWs]
  /\ response = NoResponse


\* ------------------------------------------------ billing.controller.js
\* createInvoice: the input check, the total and the row it inserts
\* isArray is what Array.isArray(items) gives for the items of the request
\* variant: an empty list is let through
InvalidInvoiceData_EmptyOk(patientId, isArray, items) == patientId = NoId \/ ~isArray

InvalidInvoiceData(patientId, isArray, items) ==
  patientId = NoId \/ ~isArray \/ Len(items) = 0
\* variant: only the first item is counted
InvoiceTotal_First(items) == items[1].amount
InvoiceTotal(items) == SumSeq(items)
NewInvoice(patientId, items) ==
  [patientId |-> patientId, totalAmount |-> InvoiceTotal(items), isPaid |-> FALSE]

\* addPayment: the input check, the paid total read from the invoice, the
\* overpayment check, the Payment row it inserts and the flag it writes.
\* paymentData is [invoiceId, typeofAmount, amount, cashierId]; only
\* invoiceId and amount are destructured and written, so the row's cashierId
\* column stays NULL.  typeofAmount is what typeof amount gives: a request
\* body may carry the amount as a string, whose digits are in amount.
\* variant: zero is let through
InvalidPaymentData_ZeroOk(paymentData) ==
  \/ paymentData.typeofAmount # "number"
  \/ paymentData.amount < 0
  \/ paymentData.invoiceId = NoId

InvalidPaymentData(paymentData) ==
  \/ paymentData.typeofAmount # "number"
  \/ paymentData.amount <= 0
  \/ paymentData.invoiceId = NoId
TotalPaid(pays, invoiceId) == SumBag(PaymentsOf(pays, invoiceId))
\* variant: a payment that reaches the total exactly is refused as well
PaymentExceedsDue_AtTotal(totalPaid, amount, totalAmount) == totalPaid + amount >= totalAmount
PaymentExceedsDue(totalPaid, amount, totalAmount) == totalPaid + amount > totalAmount
NewPayment(paymentData) ==
  [invoiceId |-> paymentData.invoiceId, amount |-> paymentData.amount,
   cashierId |-> NoCashier]
IsPaidAfter_Strict(totalPaid, amount, totalAmount) == totalPaid + amount > totalAmount
IsPaidAfter(totalPaid, amount, totalAmount) == totalPaid + amount >= totalAmount

\* ------------------------------------------------------ handler plumbing
EventOf(c) ==
  IF c.kind \in {"payAppointment", "markAppointmentPaid"}
  THEN <<"appointment", c.id>> ELSE <<"lab", c.id>>

\* Row lock of an event row: held by the transaction that updated it, from
\* the UPDATE until commit or rollback.
LockedByOther(p, ev) ==
  \E q \in Procs \ {p} : ws[q].marked /\ EventOf(call[q]) = ev

SettleKinds == {"payAppointment", "payLabRequest"}

\* Another slot is inside a settlement call on the event of call c
InFlight(p, c) ==
  \E q \in Procs \ {p} : call[q].kind \in SettleKinds /\ EventOf(call[q]) = EventOf(c)

\* Transactions that will still draw an invoice id
Drawing == {q \in Procs : call[q].kind \in SettleKinds
                          /\ pc[q] \in {"price", "mark", "invoice"}}
CanDraw == invoiceSeq + Cardinality(Drawing) <= MaxInvoices

\* The handler of slot p, serving call c, sends its response: result r with
\* payload pl.  The slot is free again; whatever its transaction had written
\* and not committed is gone.
Finish(p, c, r, pl) ==
  /\ pc' = [pc EXCEPT ![p] = "idle"]
  /\ call' = [call EXCEPT ![p] = NoCall]
  /\ local' = [local EXCEPT ![p] = NoLocal]
  /\ ws' = [ws EXCEPT ![p] = NoWs]
  /\ response' = [slot |-> p, call |-> c, result |-> r, payload |-> pl]

\* variant: the error is sent but the transaction stays open, holding its lock
Throw_StaysOpen(p, r) ==
  /\ pc' = [pc EXCEPT ![p] = "idle"]
  /\ response' = [slot |-> p, call |-> call[p], result |-> r, payload |-> NoRet]
  /\ UNCHANGED <<call, local, ws>>

\* A throw inside $transaction rolls back, the catch block sends the error
Throw(p, r) == Finish(p, call[p], r, NoRet)

\* The handler goes on to its next statement
Goto(p, label) ==
  /\ pc' = [pc EXCEPT ![p] = label]
  /\ response' = NoResponse

\* The first statement of a handler: slot p takes call c and either fails
\* at once with r or goes on to label
Begin(p, c, r, label) ==
  IF r # "none" THEN Finish(p, c, r, NoRet)
  ELSE /\ call' = [call EXCEPT ![p] = c]
       /\ Goto(p, label)
       /\ UNCHANGED <<local, ws>>

\* ------------------------------- cashier.controller.js, shared tx steps
\* createInvoice(invoiceData, tx) called from a settlement transaction
TxCreateInvoice(p, description) ==
  LET items == <<[description |-> description, amount |-> local[p].amount]>>
      pid == local[p].patientId
  IN  /\ UNCHANGED <<dbvars, origin, overlapped>>
      /\ IF InvalidInvoiceData(pid, TRUE, items)
         THEN Throw(p, "InvalidInvoiceData") /\ UNCHANGED invoiceSeq
         ELSE /\ invoiceSeq' = invoiceSeq + 1
              /\ ws' = [ws EXCEPT ![p].invoices = invoiceSeq :> NewInvoice(pid, items),
                                  ![p].items = invoiceSeq :> items]
              /\ local' = [local EXCEPT ![p].invoiceId = invoiceSeq]
              /\ Goto(p, "payment") /\ UNCHANGED call

\* variant: the payment row is written twice
TxAddPayment_Twice(p) ==
  LET data == [invoiceId |-> local[p].invoiceId, typeofAmount |-> "number",
               amount |-> local[p].amount, cashierId |-> CashierOf(p)]
      i == data.invoiceId
  IN  /\ UNCHANGED <<dbvars, origin, overlapped, invoiceSeq>>
      /\ IF InvalidPaymentData(data) THEN Throw(p, "InvalidPaymentData")
         ELSE IF i \notin DOMAIN TxInvoices(p) THEN Throw(p, "NotFound")
         ELSE LET inv == TxInvoices(p)[i]
                  totalPaid == TotalPaid(TxPayments(p), i)
              IN  IF PaymentExceedsDue(totalPaid, data.amount, inv.totalAmount)
                  THEN Throw(p, "PaymentExceedsDue")
                  ELSE /\ ws' = [ws EXCEPT
                                   ![p].payments = @ (+) SetToBag({NewPayment(data)}) (+) SetToBag({NewPayment(data)}),
                                   ![p].invoices = Merge(@, i :>
                                       [inv EXCEPT !.isPaid =
                                          IsPaidAfter(totalPaid, data.amount, inv.totalAmount)])]
                       /\ local' = [local EXCEPT ![p].totalPaid = totalPaid,
                                                 ![p].totalAmount = inv.totalAmount]
                       /\ Goto(p, "commit") /\ UNCHANGED call

\* addPayment(paymentData, tx) called from a settlement transaction; its
\* three statements run on the transaction's client.
TxAddPayment(p) ==
  LET data == [invoiceId |-> local[p].invoiceId, typeofAmount |-> "number",
               amount |-> local[p].amount, cashierId |-> CashierOf(p)]
      i == data.invoiceId
  IN  /\ UNCHANGED <<dbvars, origin, overlapped, invoiceSeq>>
      /\ IF InvalidPaymentData(data) THEN Throw(p, "InvalidPaymentData")
         ELSE IF i \notin DOMAIN TxInvoices(p) THEN Throw(p, "NotFound")
         ELSE LET inv == TxInvoices(p)[i]
                  totalPaid == TotalPaid(TxPayments(p), i)
              IN  IF PaymentExceedsDue(totalPaid, data.amount, inv.totalAmount)
                  THEN Throw(p, "PaymentExceedsDue")
                  ELSE /\ ws' = [ws EXCEPT
                                   ![p].payments = @ (+) SetToBag({NewPayment(data)}),
                                   ![p].invoices = Merge(@, i :>
                                       [inv EXCEPT !.isPaid =
                                          IsPaidAfter(totalPaid, data.amount, inv.totalAmount)])]
                       /\ local' = [local EXCEPT ![p].totalPaid = totalPaid,
                                                 ![p].totalAmount = inv.totalAmount]
                       /\ Goto(p, "commit") /\ UNCHANGED call

\* The callback returned {event, invoice, payment}: $transaction commits
\* and res.json(result) sends what the callback returned.
TxCommit(p) ==
  LET i == local[p].invoiceId
      inv == ws[p].invoices[i]
      pay == CHOOSE r \in DOMAIN ws[p].payments : TRUE
  IN  /\ invoices' = Merge(invoices, ws[p].invoices)
      /\ invoiceItems' = Merge(invoiceItems, ws[p].items)
      /\ payments' = payments (+) ws[p].payments
      /\ origin' = Merge(origin, i :> EventOf(call[p]))
      /\ Finish(p, call[p], "ok",
                [eventPaid |-> ws[p].marked, invoiceId |-> i,
                 patientId |-> inv.patientId, totalAmount |-> inv.totalAmount,
                 invoicePaid |-> inv.isPaid, items |-> ws[p].items[i],
                 payAmount |-> pay.amount, payCashier |-> pay.cashierId])
      /\ UNCHANGED <<prices, invoiceSeq, overlapped>>

\* ------------------------- cashier.controller.js payAppointment (in tx)
\* findFirst({where: {type}}): no orderBy, any matching row may come back
FindFirstPrice(type) == {k \in DOMAIN prices : prices[k].type = type}

\* variant: the price is looked up before the isPaid test
AppointmentCheck_PriceFirst(id) ==
  IF id \notin DOMAIN appts THEN "NotFound"
  ELSE IF FindFirstPrice("APPOINTMENT") = {} THEN "PricingNotConfigured"
  ELSE IF appts[id].isPaid THEN "AlreadyPaid" ELSE "none"

\* Step 1 of the callback: the two tests on the row findUnique returned
AppointmentCheck(id) ==
  IF id \notin DOMAIN appts THEN "NotFound"
  ELSE IF appts[id].isPaid THEN "AlreadyPaid" ELSE "none"

\* variant: the isPaid guard is missing
PayAppointmentFind_NoGuard(p, id) ==
  /\ pc[p] = "idle"
  /\ CanDraw
  /\ UNCHANGED <<dbvars, origin, invoiceSeq>>
  /\ overlapped' = IF InFlight(p, [kind |-> "payAppointment", id |-> id])
                    THEN overlapped \cup {EventOf([kind |-> "payAppointment", id |-> id])}
                    ELSE overlapped
  /\ Begin(p, [kind |-> "payAppointment", id |-> id],
           IF id \notin DOMAIN appts THEN "NotFound" ELSE "none",
           "price")

PayAppointmentFind(p, id) ==
  /\ pc[p] = "idle"
  /\ CanDraw
  /\ UNCHANGED <<dbvars, origin, invoiceSeq>>
  /\ overlapped' = IF InFlight(p, [kind |-> "payAppointment", id |-> id])
                    THEN overlapped \cup {EventOf([kind |-> "payAppointment", id |-> id])}
                    ELSE overlapped
  /\ Begin(p, [kind |-> "payAppointment", id |-> id], AppointmentCheck(id), "price")

PayAppointmentPrice(p) ==
  /\ pc[p] = "price" /\ call[p].kind = "payAppointment"
  /\ UNCHANGED <<dbvars, origin, overlapped, invoiceSeq>>
  /\ IF FindFirstPrice("APPOINTMENT") = {} THEN Throw(p, "PricingNotConfigured")
     ELSE \E k \in FindFirstPrice("APPOINTMENT") :
            /\ local' = [local EXCEPT ![p].amount = prices[k].amount]
            /\ Goto(p, "mark") /\ UNCHANGED <<ws, call>>

\* variant: the update goes through the plain client, outside the transaction
PayAppointmentMark_NoTx(p) ==
  /\ pc[p] = "mark" /\ call[p].kind = "payAppointment"
  /\ ~LockedByOther(p, EventOf(call[p]))
  /\ appts' = [appts EXCEPT ![call[p].id].isPaid = TRUE]
  /\ ws' = [ws EXCEPT ![p].marked = TRUE]
  /\ local' = [local EXCEPT ![p].patientId = appts[call[p].id].patientId,
                            ![p].name = DoctorName(appts[call[p].id].doctorId)]
  /\ Goto(p, "invoice")
  /\ UNCHANGED <<prices, labs, ledger, origin, overlapped, invoiceSeq, call>>

PayAppointmentMark(p) ==
  /\ pc[p] = "mark" /\ call[p].kind = "payAppointment"
  /\ ~LockedByOther(p, EventOf(call[p]))
  /\ ws' = [ws EXCEPT ![p].marked = TRUE]
  /\ local' = [local EXCEPT ![p].patientId = appts[call[p].id].patientId,
                            ![p].name = DoctorName(appts[call[p].id].doctorId)]
  /\ Goto(p, "invoice")
  /\ UNCHANGED <<dbvars, origin, overlapped, invoiceSeq, call>>

PayAppointmentInvoice(p) ==
  /\ pc[p] = "invoice" /\ call[p].kind = "payAppointment"
  /\ TxCreateInvoice(p, ApptDescription(local[p].name))

PayAppointmentPayment(p) ==
  /\ pc[p] = "payment" /\ call[p].kind = "payAppointment"
  /\ TxAddPayment(p)

\* variant: settling an appointment also marks its lab requests paid
PayAppointmentCommit_WithLabs(p) ==
  /\ pc[p] = "commit" /\ call[p].kind = "payAppointment"
  /\ appts' = [appts EXCEPT ![call[p].id].isPaid = TRUE]
  /\ labs' = [l \in DOMAIN labs |->
                IF labs[l].appointmentId = call[p].id
                THEN [labs[l] EXCEPT !.isPaid = TRUE] ELSE labs[l]]
  /\ TxCommit(p)

PayAppointmentCommit(p) ==
  /\ pc[p] = "commit" /\ call[p].kind = "payAppointment"
  /\ appts' = [appts EXCEPT ![call[p].id].isPaid = TRUE]
  /\ labs' = labs
  /\ TxCommit(p)

PayAppointment(p) ==
  \/ \E id \in 1..(NumAppts + 1) : PayAppointmentFind(p, id)
  \/ PayAppointmentPrice(p)
  \/ PayAppointmentMark(p)
  \/ PayAppointmentInvoice(p)
  \/ PayAppointmentPayment(p)
  \/ PayAppointmentCommit(p)

\* ------------------------- cashier.controller.js payLabRequest (in tx)
PayLabRequestFind(p, id) ==
  /\ pc[p] = "idle"
  /\ CanDraw
  /\ UNCHANGED <<dbvars, origin, invoiceSeq>>
  /\ overlapped' = IF InFlight(p, [kind |-> "payLabRequest", id |-> id])
                    THEN overlapped \cup {EventOf([kind |-> "payLabRequest", id |-> id])}
                    ELSE overlapped
  /\ Begin(p, [kind |-> "payLabRequest", id |-> id],
           IF id \notin DOMAIN labs THEN "NotFound"
           ELSE IF labs[id].isPaid THEN "AlreadyPaid"
           ELSE IF labs[id].priceId \notin DOMAIN prices THEN "PricingNotConfigured"
           ELSE "none",
           "mark")

\* variant: the price comes from a catalog lookup by type
PayLabRequestMark_ByType(p) ==
  LET lab == labs[call[p].id]
  IN  /\ pc[p] = "mark" /\ call[p].kind = "payLabRequest"
      /\ ~LockedByOther(p, EventOf(call[p]))
      /\ \E k \in FindFirstPrice("LAB") :
           local' = [local EXCEPT ![p].patientId = appts[lab.appointmentId].patientId,
                                  ![p].name = prices[k].name,
                                  ![p].amount = prices[k].amount]
      /\ ws' = [ws EXCEPT ![p].marked = TRUE]
      /\ Goto(p, "invoice")
      /\ UNCHANGED <<dbvars, origin, overlapped, invoiceSeq, call>>

\* The statement sees the rows committed when it runs: if the lab request
\* has been deleted since the findUnique, update throws and the catch block
\* answers 500.
PayLabRequestMark(p) ==
  LET lab == labs[call[p].id]
      price == prices[lab.priceId]
  IN  /\ pc[p] = "mark" /\ call[p].kind = "payLabRequest"
      /\ ~LockedByOther(p, EventOf(call[p]))
      /\ UNCHANGED <<dbvars, origin, overlapped, invoiceSeq>>
      /\ IF call[p].id \notin DOMAIN labs THEN Throw(p, "ServerError")
         ELSE /\ ws' = [ws EXCEPT ![p].marked = TRUE]
              /\ local' = [local EXCEPT
                             ![p].patientId = appts[lab.appointmentId].patientId,
                             ![p].name = price.name,
                             ![p].amount = price.amount]
              /\ Goto(p, "invoice") /\ UNCHANGED call

PayLabRequestInvoice(p) ==
  /\ pc[p] = "invoice" /\ call[p].kind = "payLabRequest"
  /\ TxCreateInvoice(p, LabDescription(local[p].name))

PayLabRequestPayment(p) ==
  /\ pc[p] = "payment" /\ call[p].kind = "payLabRequest"
  /\ TxAddPayment(p)

\* variant: the isPaid write is not part of what the commit publishes
PayLabRequestCommit_FlagLeftOut(p) ==
  /\ pc[p] = "commit" /\ call[p].kind = "payLabRequest"
  /\ labs' = labs
  /\ appts' = appts
  /\ TxCommit(p)

PayLabRequestCommit(p) ==
  /\ pc[p] = "commit" /\ call[p].kind = "payLabRequest"
  /\ labs' = [labs EXCEPT ![call[p].id].isPaid = TRUE]
  /\ appts' = appts
  /\ TxCommit(p)

PayLabRequest(p) ==
  \/ \E id \in 1..(NumAppts + 1) : PayLabRequestFind(p, id)
  \/ PayLabRequestMark(p)
  \/ PayLabRequestInvoice(p)
  \/ PayLabRequestPayment(p)
  \/ PayLabRequestCommit(p)

\* -------- the pay handlers without a transaction: payAppointment of
\* appointments.controller.js and payLabRequest of the lab controller (the
\* inline PATCH .../pay handlers of cashier.router.js and of the older
\* index.js are the same two statements)
MarkAppointmentPaidFind(p, id) ==
  /\ pc[p] = "idle"
  /\ UNCHANGED <<dbvars, origin, overlapped, invoiceSeq>>
  /\ Begin(p, [kind |-> "markAppointmentPaid", id |-> id],
           IF id \notin DOMAIN appts THEN "NotFound"
           ELSE IF appts[id].isPaid THEN "AlreadyPaid" ELSE "none",
           "update")

MarkAppointmentPaidUpdate(p) ==
  /\ pc[p] = "update" /\ call[p].kind = "markAppointmentPaid"
  /\ ~LockedByOther(p, EventOf(call[p]))
  /\ appts' = [appts EXCEPT ![call[p].id].isPaid = TRUE]
  /\ Finish(p, call[p], "ok", [NoRet EXCEPT !.eventPaid = TRUE])
  /\ UNCHANGED <<prices, labs, ledger, origin, overlapped, invoiceSeq>>

MarkLabRequestPaidFind(p, id) ==
  /\ pc[p] = "idle"
  /\ UNCHANGED <<dbvars, origin, overlapped, invoiceSeq>>
  /\ Begin(p, [kind |-> "markLabRequestPaid", id |-> id],
           IF id \notin DOMAIN labs THEN "NotFound"
           ELSE IF labs[id].isPaid THEN "AlreadyPaid" ELSE "none",
           "update")

MarkLabRequestPaidUpdate(p) ==
  /\ pc[p] = "update" /\ call[p].kind = "markLabRequestPaid"
  /\ ~LockedByOther(p, EventOf(call[p]))
  /\ labs' = [labs EXCEPT ![call[p].id].isPaid = TRUE]
  /\ Finish(p, call[p], "ok", [NoRet EXCEPT !.eventPaid = TRUE])
  /\ UNCHANGED <<prices, appts, ledger, origin, overlapped, invoiceSeq>>

MarkPaid(p) ==
  \/ \E id \in 1..(NumAppts + 1) : MarkAppointmentPaidFind(p, id)
  \/ MarkAppointmentPaidUpdate(p)
  \/ \E id \in 1..(NumAppts + 1) : MarkLabRequestPaidFind(p, id)
  \/ MarkLabRequestPaidUpdate(p)

\* --------------- billing.controller.js handlers on the plain prisma client
ManualItem(a) == [description |-> <<"Item ", "misc">>, amount |-> a]
ItemLists == {<<>>} \cup {<<ManualItem(a)>> : a \in Amounts}
                    \cup {<<ManualItem(1), ManualItem(a)>> : a \in Amounts}

\* POST /billing/invoices: createInvoice(req.body), one nested create
CreateInvoiceHandler(p, patientId, isArray, items) ==
  LET c == [kind |-> "createInvoice", id |-> patientId]
  IN  /\ pc[p] = "idle"
      /\ CanDraw
      /\ Cardinality({i \in DOMAIN origin : origin[i][1] = "manual"}) < MaxManual
      /\ UNCHANGED <<prices, appts, labs, payments>>
      /\ IF InvalidInvoiceData(patientId, isArray, items)
         THEN /\ Finish(p, c, "InvalidInvoiceData", NoRet)
              /\ UNCHANGED <<invoices, invoiceItems, invoiceSeq, origin, overlapped>>
         ELSE /\ invoices' = Merge(invoices, invoiceSeq :> NewInvoice(patientId, items))
              /\ invoiceItems' = Merge(invoiceItems, invoiceSeq :> items)
              /\ origin' = Merge(origin, invoiceSeq :> <<"manual", 0>>)
              /\ overlapped' = overlapped
              /\ invoiceSeq' = invoiceSeq + 1
              /\ Finish(p, c, "ok",
                        [NoRet EXCEPT !.invoiceId = invoiceSeq, !.patientId = patientId,
                                      !.totalAmount = InvoiceTotal(items),
                                      !.items = items])

\* POST /billing/invoices/:id/payments: addPayment(paymentData) with the
\* default client, three statements with nothing holding them together
\* Another slot is between the statements of addPayment on the same invoice
AddPaymentInFlight(p, invoiceId) ==
  \E q \in Procs \ {p} : call[q].kind = "addPayment" /\ call[q].id = invoiceId

\* variant: the row is inserted before the amount due is checked
AddPaymentFind_InsertFirst(p, invoiceId, typeofAmount, amount) ==
  LET data == [invoiceId |-> invoiceId, typeofAmount |-> typeofAmount,
               amount |-> amount, cashierId |-> NoCashier]
      c == [kind |-> "addPayment", id |-> invoiceId]
      totalPaid == TotalPaid(payments, invoiceId)
      rejected == IF InvalidPaymentData(data) THEN "InvalidPaymentData"
                  ELSE IF invoiceId \notin DOMAIN invoices THEN "NotFound"
                  ELSE IF PaymentExceedsDue(totalPaid, amount,
                                            invoices[invoiceId].totalAmount)
                  THEN "PaymentExceedsDue" ELSE "none"
  IN  /\ pc[p] = "idle"
      /\ UNCHANGED <<prices, appts, labs, invoices, invoiceItems, origin, invoiceSeq>>
      /\ payments' = IF rejected = "PaymentExceedsDue"
                     THEN payments (+) SetToBag({NewPayment(data)}) ELSE payments
      /\ overlapped' = IF rejected = "none" /\ AddPaymentInFlight(p, invoiceId)
                        THEN overlapped \cup {<<"invoice", invoiceId>>}
                        ELSE overlapped
      /\ IF rejected # "none" THEN Finish(p, c, rejected, NoRet)
         ELSE /\ local' = [local EXCEPT ![p] =
                             [NoLocal EXCEPT !.invoiceId = invoiceId,
                                             !.amount = amount,
                                             !.totalPaid = totalPaid,
                                             !.totalAmount = invoices[invoiceId].totalAmount]]
              /\ call' = [call EXCEPT ![p] = c]
              /\ Goto(p, "create") /\ UNCHANGED ws

AddPaymentFind(p, invoiceId, typeofAmount, amount) ==
  LET data == [invoiceId |-> invoiceId, typeofAmount |-> typeofAmount,
               amount |-> amount, cashierId |-> NoCashier]
      c == [kind |-> "addPayment", id |-> invoiceId]
      totalPaid == TotalPaid(payments, invoiceId)
      rejected == IF InvalidPaymentData(data) THEN "InvalidPaymentData"
                  ELSE IF invoiceId \notin DOMAIN invoices THEN "NotFound"
                  ELSE IF PaymentExceedsDue(totalPaid, amount,
                                            invoices[invoiceId].totalAmount)
                  THEN "PaymentExceedsDue" ELSE "none"
  IN  /\ pc[p] = "idle"
      /\ UNCHANGED <<dbvars, origin, invoiceSeq>>
      /\ overlapped' = IF rejected = "none" /\ AddPaymentInFlight(p, invoiceId)
                        THEN overlapped \cup {<<"invoice", invoiceId>>}
                        ELSE overlapped
      /\ IF rejected # "none" THEN Finish(p, c, rejected, NoRet)
         ELSE /\ local' = [local EXCEPT ![p] =
                             [NoLocal EXCEPT !.invoiceId = invoiceId,
                                             !.amount = amount,
                                             !.totalPaid = totalPaid,
                                             !.totalAmount = invoices[invoiceId].totalAmount]]
              /\ call' = [call EXCEPT ![p] = c]
              /\ Goto(p, "create") /\ UNCHANGED ws

\* variant: the new row replaces the rows the invoice already has
AddPaymentCreate_Replace(p) ==
  /\ pc[p] = "create" /\ call[p].kind = "addPayment"
  /\ payments' = [r \in {x \in DOMAIN payments : x.invoiceId # local[p].invoiceId}
                    |-> payments[r]]
                 (+) SetToBag({NewPayment(
                   [invoiceId |-> local[p].invoiceId, typeofAmount |-> "number",
                    amount |-> local[p].amount, cashierId |-> NoCashier])})
  /\ Goto(p, "flag")
  /\ UNCHANGED <<prices, appts, labs, invoices, invoiceItems, origin, overlapped, invoiceSeq,
                 call, local, ws>>

AddPaymentCreate(p) ==
  /\ pc[p] = "create" /\ call[p].kind = "addPayment"
  /\ payments' = payments (+) SetToBag({NewPayment(
                   [invoiceId |-> local[p].invoiceId, typeofAmount |-> "number",
                    amount |-> local[p].amount, cashierId |-> NoCashier])})
  /\ Goto(p, "flag")
  /\ UNCHANGED <<prices, appts, labs, invoices, invoiceItems, origin, overlapped, invoiceSeq,
                 call, local, ws>>

\* variant: the flag is computed without the new payment
AddPaymentFlag_WithoutNew(p) ==
  LET i == local[p].invoiceId
      isPaid == IsPaidAfter(local[p].totalPaid, 0, local[p].totalAmount)
  IN  /\ pc[p] = "flag" /\ call[p].kind = "addPayment"
      /\ invoices' = [invoices EXCEPT ![i].isPaid = isPaid]
      /\ Finish(p, call[p], "ok",
                [NoRet EXCEPT !.invoiceId = i,
                              !.patientId = invoices[i].patientId,
                              !.totalAmount = invoices[i].totalAmount,
                              !.invoicePaid = isPaid,
                              !.items = invoiceItems[i],
                              !.payAmount = local[p].amount])
      /\ UNCHANGED <<prices, appts, labs, invoiceItems, payments, origin, overlapped, invoiceSeq>>

AddPaymentFlag(p) ==
  LET i == local[p].invoiceId
      isPaid == IsPaidAfter(local[p].totalPaid, local[p].amount, local[p].totalAmount)
  IN  /\ pc[p] = "flag" /\ call[p].kind = "addPayment"
      /\ invoices' = [invoices EXCEPT ![i].isPaid = isPaid]
      /\ Finish(p, call[p], "ok",
                [NoRet EXCEPT !.invoiceId = i,
                              !.patientId = invoices[i].patientId,
                              !.totalAmount = invoices[i].totalAmount,
                              !.invoicePaid = isPaid,
                              !.items = invoiceItems[i],
                              !.payAmount = local[p].amount])
      /\ UNCHANGED <<prices, appts, labs, invoiceItems, payments, origin, overlapped, invoiceSeq>>

Billing(p) ==
  \/ \E pid \in 0..NumAppts, isArray \in BOOLEAN, items \in ItemLists :
       CreateInvoiceHandler(p, pid, isArray, items)
  \/ \E i \in {NoId} \cup InvoiceIds, t \in {"number", "string"}, a \in PayAmounts :
       AddPaymentFind(p, i, t, a)
  \/ AddPaymentCreate(p)
  \/ AddPaymentFlag(p)

\* ------------------- lab controller submitLabResult (PATCH .../result)
\* The request body carries result; the handler reads the row, refuses an
\* unknown or unpaid lab request and then writes result and status only.

\* variant: the result is accepted whether the request is paid or not
SubmitLabResultFind_Unpaid(p, id, hasResult) ==
  /\ pc[p] = "idle"
  /\ UNCHANGED <<dbvars, origin, overlapped, invoiceSeq>>
  /\ Begin(p, [kind |-> "submitLabResult", id |-> id],
           IF ~hasResult THEN "InvalidRequest"
           ELSE IF id \notin DOMAIN labs THEN "NotFound"
           ELSE "none",
           "result")

SubmitLabResultFind(p, id, hasResult) ==
  /\ pc[p] = "idle"
  /\ UNCHANGED <<dbvars, origin, overlapped, invoiceSeq>>
  /\ Begin(p, [kind |-> "submitLabResult", id |-> id],
           IF ~hasResult THEN "InvalidRequest"
           ELSE IF id \notin DOMAIN labs THEN "NotFound"
           ELSE IF ~labs[id].isPaid THEN "NotPaid" ELSE "none",
           "result")

\* variant: the update writes the whole row with isPaid back at its default
SubmitLabResultUpdate_Reset(p) ==
  /\ pc[p] = "result" /\ call[p].kind = "submitLabResult"
  /\ ~LockedByOther(p, EventOf(call[p]))
  /\ labs' = [labs EXCEPT ![call[p].id].status = "COMPLETED",
                          ![call[p].id].result = "result text",
                          ![call[p].id].isPaid = FALSE]
  /\ Finish(p, call[p], "ok", NoRet)
  /\ UNCHANGED <<prices, appts, ledger, origin, overlapped, invoiceSeq>>

SubmitLabResultUpdate(p) ==
  /\ pc[p] = "result" /\ call[p].kind = "submitLabResult"
  /\ ~LockedByOther(p, EventOf(call[p]))
  /\ labs' = [labs EXCEPT ![call[p].id].status = "COMPLETED",
                          ![call[p].id].result = "result text"]
  /\ Finish(p, call[p], "ok", [NoRet EXCEPT !.eventPaid = labs[call[p].id].isPaid])
  /\ UNCHANGED <<prices, appts, ledger, origin, overlapped, invoiceSeq>>

SubmitLabResult(p) ==
  \/ \E id \in 1..(NumAppts + 1), hasResult \in BOOLEAN : SubmitLabResultFind(p, id, hasResult)
  \/ SubmitLabResultUpdate(p)

\* ------------------------- admin.controller.js updatePrice, deletePrice
\* Request bodies of PUT /prices/:id.  A type or code that is absent or
\* empty is falsy and is not written.
NoUpdate == [type |-> "", code |-> "", hasAmount |-> FALSE, amount |-> 0,
             hasActive |-> FALSE, active |-> FALSE]

\* a new amount, or active: false
UpdateBodies ==
  {[NoUpdate EXCEPT !.hasAmount = TRUE, !.amount = a] : a \in PayAmounts}
  \cup {[NoUpdate EXCEPT !.hasActive = TRUE]}

ValidTypes == {"APPOINTMENT", "LAB"}

\* data built from the body: only the fields present are written
UpdatedPrice(price, body) ==
  [price EXCEPT !.type = IF body.type # "" THEN body.type ELSE @,
                !.code = IF body.code # "" THEN body.code ELSE @,
                !.amount = IF body.hasAmount THEN body.amount ELSE @,
                !.active = IF body.hasActive THEN body.active ELSE @]

\* The unique index Price_type_code_key: some row other than skip already
\* has this (type, code)
KeyTaken(type, code, skip) ==
  \E k \in DOMAIN prices \ {skip} : prices[k].type = type /\ prices[k].code = code

\* variant: invoice lines follow the price of their kind instead of keeping a copy
UpdatePrice_Live(p, id, body) ==
  LET c == [kind |-> "updatePrice", id |-> id]
      follows(i) == id \in DOMAIN prices /\ body.hasAmount /\ body.amount >= 0
                    /\ i \in DOMAIN origin
                    /\ origin[i][1] = (IF prices[id].type = "LAB" THEN "lab" ELSE "appointment")
  IN  /\ pc[p] = "idle"
      /\ UNCHANGED <<appts, labs, payments, origin, overlapped, invoiceSeq>>
      /\ invoices' = [i \in DOMAIN invoices |->
                        IF follows(i) THEN [invoices[i] EXCEPT !.totalAmount = body.amount]
                        ELSE invoices[i]]
      /\ invoiceItems' = [i \in DOMAIN invoiceItems |->
                            IF follows(i)
                            THEN <<[invoiceItems[i][1] EXCEPT !.amount = body.amount]>>
                            ELSE invoiceItems[i]]
      /\ IF body.hasAmount /\ body.amount < 0
         THEN Finish(p, c, "InvalidRequest", NoRet) /\ UNCHANGED prices
         ELSE IF id \notin DOMAIN prices
         THEN Finish(p, c, "UpdateFailed", NoRet) /\ UNCHANGED prices
         ELSE /\ prices' = [prices EXCEPT ![id] = UpdatedPrice(@, body)]
              /\ Finish(p, c, "ok", NoRet)

\* updatePrice: the amount check, then one price.update
UpdatePrice(p, id, body) ==
  LET c == [kind |-> "updatePrice", id |-> id]
      row == UpdatedPrice(prices[id], body)
  IN  /\ pc[p] = "idle"
      /\ UNCHANGED <<appts, labs, ledger, origin, overlapped, invoiceSeq>>
      /\ IF (body.type # "" /\ body.type \notin ValidTypes)
            \/ (body.hasAmount /\ body.amount < 0)
         THEN Finish(p, c, "InvalidRequest", NoRet) /\ UNCHANGED prices
         ELSE IF id \notin DOMAIN prices \/ KeyTaken(row.type, row.code, id)
         THEN Finish(p, c, "UpdateFailed", NoRet) /\ UNCHANGED prices
         ELSE /\ prices' = [prices EXCEPT ![id] = row]
              /\ Finish(p, c, "ok", NoRet)

\* createPrice: the body check and the findUnique on (type, code).  A missing
\* type or code is the empty string.
CreatePriceFind(p, type, code, amount) ==
  LET c == [kind |-> "createPrice", id |-> NoId]
  IN  /\ pc[p] = "idle"
      /\ UNCHANGED <<dbvars, origin, overlapped, invoiceSeq>>
      /\ IF type \notin ValidTypes \/ code = "" \/ ~(amount >= 0)
         THEN Finish(p, c, "InvalidRequest", NoRet)
         ELSE IF KeyTaken(type, code, NoId)
         THEN Finish(p, c, "Conflict", NoRet)
         ELSE /\ local' = [local EXCEPT ![p] =
                             [NoLocal EXCEPT !.type = type, !.code = code,
                                             !.amount = amount, !.name = "New price"]]
              /\ call' = [call EXCEPT ![p] = c]
              /\ Goto(p, "insert") /\ UNCHANGED ws

\* The row price.create inserts; ids only name rows
NextPriceId == CHOOSE k \in 1..(Cardinality(DOMAIN prices) + 1) : k \notin DOMAIN prices
NewPrice(p) == [type |-> local[p].type, code |-> local[p].code, name |-> local[p].name,
                amount |-> local[p].amount, active |-> TRUE]

\* variant: the table has no unique index on (type, code)
CreatePriceInsert_NoIndex(p) ==
  /\ pc[p] = "insert" /\ call[p].kind = "createPrice"
  /\ UNCHANGED <<appts, labs, ledger, origin, overlapped, invoiceSeq>>
  /\ prices' = (NextPriceId :> NewPrice(p)) @@ prices
  /\ Finish(p, call[p], "ok", NoRet)

\* price.create: the unique index refuses a second row with the same key,
\* the catch block answers 400
CreatePriceInsert(p) ==
  /\ pc[p] = "insert" /\ call[p].kind = "createPrice"
  /\ UNCHANGED <<appts, labs, ledger, origin, overlapped, invoiceSeq>>
  /\ IF KeyTaken(local[p].type, local[p].code, NoId)
     THEN Finish(p, call[p], "CreateFailed", NoRet) /\ UNCHANGED prices
     ELSE /\ prices' = (NextPriceId :> NewPrice(p)) @@ prices
          /\ Finish(p, call[p], "ok", NoRet)

\* Bodies that move a price to another type or code
RekeyBodies ==
  {[NoUpdate EXCEPT !.code = c] : c \in {"CONSULT", "FOLLOWUP"}}
  \cup {[NoUpdate EXCEPT !.type = t] : t \in {"APPOINTMENT", "WARD"}}

PriceAdmin(p) ==
  \/ \E type \in {"APPOINTMENT", ""}, code \in {"CONSULT", "FOLLOWUP", ""},
        amount \in PayAmounts : CreatePriceFind(p, type, code, amount)
  \/ CreatePriceInsert(p)
  \/ \E id \in DOMAIN prices, body \in RekeyBodies : UpdatePrice(p, id, body)

\* A lab request row linked to price id is row-locked by a running transaction
LabRowLocked(id) ==
  \E q \in Procs : /\ ws[q].marked /\ call[q].kind = "payLabRequest"
                   /\ call[q].id \in DOMAIN labs
                   /\ labs[call[q].id].priceId = id

\* deletePrice: one price.delete; LabRequest.priceId is ON DELETE CASCADE, so
\* the lab requests linked to the price go with it.  The delete waits for a
\* transaction that holds the lock of such a row.
DeletePrice(p, id) ==
  LET c == [kind |-> "deletePrice", id |-> id]
      kept == {l \in DOMAIN labs : labs[l].priceId # id}
  IN  /\ pc[p] = "idle"
      /\ ~LabRowLocked(id)
      /\ UNCHANGED <<appts, ledger, origin, overlapped, invoiceSeq>>
      /\ IF id \notin DOMAIN prices
         THEN Finish(p, c, "DeleteFailed", NoRet) /\ UNCHANGED <<prices, labs>>
         ELSE /\ prices' = [k \in DOMAIN prices \ {id} |-> prices[k]]
              /\ labs' = [l \in kept |-> labs[l]]
              /\ Finish(p, c, "ok", NoRet)

\* ids of the prices the seeded events are charged from
PriceIds == {1, 2}

Catalog(p) ==
  \/ \E id \in PriceIds, body \in UpdateBodies : UpdatePrice(p, id, body)
  \/ \E id \in PriceIds : DeletePrice(p, id)

\* ------------------------------------------------------- specifications
\* Settlement: the transactional handlers and the plain pay handlers
Next == \E p \in Procs : PayAppointment(p) \/ PayLabRequest(p) \/ MarkPaid(p)

Spec == Init /\ [][Next]_vars

\* Ledger: invoices and payments made through the billing endpoints
NextLedger == \E p \in Procs : Billing(p)

InitLedger == Init /\ prices = (1 :> ApptFee(MaxAmount, TRUE)) @@ LabCatalog(1)

SpecLedger == InitLedger /\ [][NextLedger]_vars

\* Events: every handler that writes an Appointment or LabRequest row
NextEvents ==
  \E p \in Procs : PayAppointment(p) \/ PayLabRequest(p) \/ MarkPaid(p) \/ SubmitLabResult(p)

SpecEvents == InitLedger /\ [][NextEvents]_vars

\* Mixed: a settlement handler and the billing endpoints working on one ledger
NextMixed == \E p \in Procs : PayLabRequest(p) \/ Billing(p)

\* The lab examination of the seeded lab request is free of charge or not
InitMixed == Init /\ prices \in {(1 :> ApptFee(MaxAmount, TRUE)) @@ LabCatalog(1),
                                 (1 :> ApptFee(MaxAmount, FALSE)) @@ LabCatalog(0)}

SpecMixed == InitMixed /\ [][NextMixed]_vars

\* Catalog: settlements while an admin updates and deletes prices
NextCatalog == \E p \in Procs : PayAppointment(p) \/ PayLabRequest(p) \/ Catalog(p)

InitCatalog == Init /\ prices = (1 :> ApptFee(1, TRUE)) @@ LabCatalog(1)

SpecCatalog == InitCatalog /\ [][NextCatalog]_vars

\* Prices: admins creating prices and moving them to other keys
NextPrices == \E p \in Procs : PriceAdmin(p)

SpecPrices == InitCatalog /\ [][NextPrices]_vars

\* ------------------------- utils/response.js and the settlement catch blocks
\* sendError(res, status, msg, err): err is shown outside production only;
\* an absent err is the empty string
sendError(nodeEnv, status, msg, err) ==
  [status |-> status, success |-> FALSE, msg |-> msg,
   error |-> IF nodeEnv # "production" /\ err # "" THEN err ELSE ""]

\* The message of the error prisma throws when the row to update is gone
RecordNotFoundMessage == "Record to update not found."

\* e.message of the error a failed settlement call threw
ThrownMessage(c, r) ==
  LET what == IF c.kind = "payAppointment" THEN "Appointment" ELSE "Lab request"
  IN  CASE r = "NotFound" -> what \o " not found"
        [] r = "AlreadyPaid" -> what \o " is already paid"
        [] r = "PricingNotConfigured" ->
             IF c.kind = "payAppointment"
             THEN "Payment failed: Appointment pricing is not configured."
             ELSE "Payment failed: Lab request price is not configured."
        [] r = "InvalidInvoiceData" -> "Invalid invoice data"
        [] r = "InvalidPaymentData" -> "Invalid payment data"
        [] r = "PaymentExceedsDue" -> "Payment exceeds amount due"
        [] r = "ServerError" -> RecordNotFoundMessage
        [] OTHER -> ""

\* The catch block of payAppointment and payLabRequest
SettlementCatch(nodeEnv, c, r) ==
  LET message == ThrownMessage(c, r)
      what == IF c.kind = "payAppointment" THEN "Appointment" ELSE "Lab request"
  IN  IF message = what \o " not found" THEN sendError(nodeEnv, 404, message, "")
      ELSE IF message = what \o " is already paid" THEN sendError(nodeEnv, 400, message, "")
      ELSE sendError(nodeEnv, 500,
                     IF message # "" THEN message
                     ELSE IF c.kind = "payAppointment" THEN "Unable to process payment."
                     ELSE "Unable to process lab request payment.",
                     "")

\* Settlement under fair scheduling.  A handler whose awaited statement can
\* run does run: the event loop resumes every continuation whose query has
\* returned, and PostgreSQL grants a row lock to the transactions waiting
\* for it in the order they queued, so a waiting UPDATE is not passed over
\* for ever.  Starting a call is the client's choice and has no fairness.
NextSettle == \E p \in Procs : PayAppointment(p) \/ PayLabRequest(p)

SettlementRuns(p) ==
  /\ pc[p] # "idle"
  /\ PayAppointment(p) \/ PayLabRequest(p)

SpecFair ==
  Init /\ [][NextSettle]_vars /\ \A p \in Procs : SF_vars(SettlementRuns(p))

\* ------------------------------- report controller getFinancialReport
\* invoice.aggregate({where, _sum: {totalAmount: true}}) over the invoices
\* in set S; an empty sum is null and becomes 0
RECURSIVE SumTotalAmount(_)
SumTotalAmount(S) ==
  IF S = {} THEN 0
  ELSE LET i == CHOOSE x \in S : TRUE
       IN  invoices[i].totalAmount + SumTotalAmount(S \ {i})

totalRevenue == SumBag(payments)
pendingPayments == SumTotalAmount({i \in DOMAIN invoices : ~invoices[i].isPaid})

\* ------------------------------------------------------------ properties
Events == {<<"appointment", a>> : a \in ApptIds} \cup {<<"lab", l>> : l \in LabIds}
EventPaid(ev) == IF ev[1] = "appointment" THEN appts[ev[2]].isPaid ELSE labs[ev[2]].isPaid
InvoicesOf(ev) == {i \in DOMAIN origin : origin[i] = ev}
PaidSum(i) == TotalPaid(payments, i)
PaymentCount(i) == BagCardinality(PaymentsOf(payments, i))
Settled(r) == r.result = "ok" /\ r.call.kind \in SettleKinds

\* C1: settlement calls on the same event, overlapping or not, leave at most
\* one invoice and at most one payment for that event (one call succeeds,
\* the others fail with AlreadyPaid).
C1_OneSettlementPerEvent ==
  \A ev \in Events :
    /\ Cardinality(InvoicesOf(ev)) <= 1
    /\ \A i \in InvoicesOf(ev) : PaymentCount(i) <= 1

\* C2: an event whose isPaid flag is true has an invoice of its own whose
\* payments cover the invoice total.
C2_PaidEventHasPaidInvoice ==
  \A ev \in Events :
    EventPaid(ev) =>
      \E i \in InvoicesOf(ev) : PaidSum(i) >= invoices[i].totalAmount

\* C3: no step of a transactional settlement other than its commit changes
\* the committed Appointment, LabRequest, Invoice, InvoiceItem or Payment
\* rows; in particular the step at which the settlement fails leaves them
\* as they were.
SettlementStep ==
  \E p \in Procs :
    /\ pc[p] # pc'[p] \/ response'.slot = p
    /\ \/ call[p].kind \in SettleKinds
       \/ call'[p].kind \in SettleKinds
       \/ (response'.slot = p /\ response'.call.kind \in SettleKinds)
C3_FailedSettlementChangesNothing ==
  [][(SettlementStep /\ ~Settled(response'))
       => UNCHANGED <<appts, labs, invoices, invoiceItems, payments>>]_vars

\* C3 witness: a settlement has failed in addPayment, after its isPaid write
\* and its createInvoice, and the appointment is unpaid with an empty ledger.
C3_Witness ==
  /\ response.call.kind = "payAppointment"
  /\ response.result = "InvalidPaymentData"
  /\ ~appts[response.call.id].isPaid
  /\ invoices = EmptyFn /\ payments = EmptyBag
  /\ invoiceSeq > 1

\* C4: a settlement call that starts on an event some settlement has already
\* committed fails with AlreadyPaid and changes no table; and an event whose
\* settlement calls never overlapped has at most one invoice, with exactly
\* one payment.
StartsSettlement(p, ev) ==
  /\ pc[p] = "idle"
  /\ \/ call'[p].kind \in SettleKinds /\ EventOf(call'[p]) = ev
     \/ /\ response'.slot = p /\ response'.call.kind \in SettleKinds
        /\ EventOf(response'.call) = ev
C4_RepeatedAct ==
  \A p \in Procs, ev \in Events :
    (StartsSettlement(p, ev) /\ InvoicesOf(ev) # {})
      => /\ response'.slot = p /\ response'.result = "AlreadyPaid"
         /\ UNCHANGED <<appts, labs, invoices, invoiceItems, payments>>
C4_SequentialInv ==
  \A ev \in Events \ overlapped :
    /\ Cardinality(InvoicesOf(ev)) <= 1
    /\ \A i \in InvoicesOf(ev) : PaymentCount(i) = 1
C4_RepeatedSettlementRejected == [][C4_RepeatedAct]_vars /\ []C4_SequentialInv

\* C4 witness: a second, non-overlapping settlement call on a settled
\* appointment has just been rejected.
C4_Witness ==
  /\ response.call.kind = "payAppointment"
  /\ response.result = "AlreadyPaid"
  /\ <<"appointment", response.call.id>> \notin overlapped
  /\ Cardinality(InvoicesOf(<<"appointment", response.call.id>>)) = 1

\* C5: the payments of an invoice never add up to more than its total.
C5_PaymentsWithinTotal ==
  \A i \in DOMAIN invoices : PaidSum(i) <= invoices[i].totalAmount

\* C6: an invoice is flagged paid exactly when its payments add up to at
\* least its total.
C6_PaidFlagMatchesPayments ==
  \A i \in DOMAIN invoices :
    invoices[i].isPaid <=> (PaidSum(i) >= invoices[i].totalAmount)

\* C7: the commit of payAppointment leaves the appointment paid and adds one
\* invoice for the appointment's patient, paid, with the price amount as its
\* total and the single item "Appointment with <doctor name>", and one
\* payment of that amount on it; the response carries the same rows.
C7_Act ==
  (response'.result = "ok" /\ response'.call.kind = "payAppointment") =>
    LET a == response'.call.id
        pl == response'.payload
        i == pl.invoiceId
    IN  /\ appts'[a].isPaid /\ pl.eventPaid
        /\ i \notin DOMAIN invoices
        /\ DOMAIN invoices' = DOMAIN invoices \cup {i}
        /\ BagCardinality(payments') = BagCardinality(payments) + 1
        /\ \E k \in DOMAIN prices :
             /\ prices[k].type = "APPOINTMENT"
             /\ invoices'[i] = [patientId |-> appts[a].patientId,
                                totalAmount |-> prices[k].amount, isPaid |-> TRUE]
             /\ invoiceItems'[i] =
                  <<[description |-> ApptDescription(DoctorName(appts[a].doctorId)),
                     amount |-> prices[k].amount]>>
             /\ BagCardinality(PaymentsOf(payments', i)) = 1
             /\ \A r \in BagToSet(PaymentsOf(payments', i)) : r.amount = prices[k].amount
             /\ pl.payAmount = prices[k].amount
        /\ pl.patientId = invoices'[i].patientId
        /\ pl.totalAmount = invoices'[i].totalAmount
        /\ pl.invoicePaid = invoices'[i].isPaid
        /\ pl.items = invoiceItems'[i]
C7_SettleAppointmentResult == [][C7_Act]_vars

\* C7 witness: an appointment settlement has just committed.
C7_Witness ==
  /\ response.result = "ok" /\ response.call.kind = "payAppointment"
  /\ response.payload.totalAmount = MaxAmount
  /\ appts[response.call.id].isPaid

\* C8: the payment a settlement records carries the id of the cashier who
\* made the call.
C8_PaymentHasActingCashier ==
  Settled(response) =>
    /\ response.payload.payCashier = CashierOf(response.slot)
    /\ \A r \in BagToSet(PaymentsOf(payments, response.payload.invoiceId)) :
         r.cashierId = CashierOf(response.slot)

\* C9: an appointment settlement that succeeds has charged the amount of an
\* APPOINTMENT price whose active flag is true.
C9_OnlyActivePriceCharged ==
  (response.result = "ok" /\ response.call.kind = "payAppointment") =>
    \E k \in DOMAIN prices :
      /\ prices[k].type = "APPOINTMENT" /\ prices[k].active
      /\ prices[k].amount = response.payload.totalAmount

\* C10: the commit of payLabRequest leaves the lab request paid and adds one
\* invoice for the patient of the lab request's appointment, paid, whose
\* single item is "Lab Test: <name>" at the amount of the price the lab
\* request links to, and one payment of that amount on it.
C10_Act ==
  (response'.result = "ok" /\ response'.call.kind = "payLabRequest") =>
    LET l == response'.call.id
        pl == response'.payload
        i == pl.invoiceId
        price == prices[labs[l].priceId]
    IN  /\ labs'[l].isPaid /\ pl.eventPaid
        /\ i \notin DOMAIN invoices
        /\ DOMAIN invoices' = DOMAIN invoices \cup {i}
        /\ BagCardinality(payments') = BagCardinality(payments) + 1
        /\ invoices'[i] = [patientId |-> appts[labs[l].appointmentId].patientId,
                           totalAmount |-> price.amount, isPaid |-> TRUE]
        /\ invoiceItems'[i] =
             <<[description |-> LabDescription(price.name), amount |-> price.amount]>>
        /\ BagCardinality(PaymentsOf(payments', i)) = 1
        /\ \A r \in BagToSet(PaymentsOf(payments', i)) : r.amount = price.amount
        /\ pl.items = invoiceItems'[i]
        /\ pl.payAmount = price.amount
C10_SettleLabRequestResult == [][C10_Act]_vars

\* C10 witness: a lab request settlement has just committed and the catalog
\* holds another LAB price that differs from the linked one.
C10_Witness ==
  /\ response.result = "ok" /\ response.call.kind = "payLabRequest"
  /\ labs[response.call.id].isPaid
  /\ \E k \in DOMAIN prices :
       /\ prices[k].type = "LAB" /\ k # labs[response.call.id].priceId
       /\ prices[k].name # prices[labs[response.call.id].priceId].name

\* C11: no step takes the isPaid flag of an appointment or of a lab request
\* from true back to false.
C11_PaidStaysPaid ==
  [][\A ev \in Events : EventPaid(ev) => EventPaid(ev)']_vars

\* C11 witness: a paid lab request has had its result submitted, the other
\* write the repository makes to a paid event row.
C11_Witness ==
  /\ response.call.kind = "submitLabResult" /\ response.result = "ok"
  /\ labs[response.call.id].status = "COMPLETED"
  /\ labs[response.call.id].isPaid

\* C12: the totalAmount of every invoice, made by a settlement or through
\* createInvoice, is the sum of the amounts of its items.
C12_TotalIsSumOfItems ==
  \A i \in DOMAIN invoices : invoices[i].totalAmount = SumSeq(invoiceItems[i])

\* C12 witness: a settlement invoice and an invoice created with two items
\* stand side by side.
C12_Witness ==
  /\ \E i \in DOMAIN invoices : origin[i][1] # "manual"
  /\ \E i \in DOMAIN invoices : origin[i][1] = "manual" /\ Len(invoiceItems[i]) = 2
                                 /\ invoiceItems[i][2].amount > 0

\* C13: an addPayment call with a positive numeric amount on an existing
\* invoice is refused with PaymentExceedsDue exactly when the payments it
\* reads plus the amount exceed the invoice total; a payment reaching the
\* total exactly is accepted; an accepted payment is stored with the amount
\* asked for, never a smaller one.
C13_Act ==
  /\ \A p \in Procs, i \in DOMAIN invoices, a \in 1..(MaxAmount + 1) :
       AddPaymentFind(p, i, "number", a) =>
         /\ (response'.result = "PaymentExceedsDue")
              <=> (PaidSum(i) + a > invoices[i].totalAmount)
         /\ (PaidSum(i) + a <= invoices[i].totalAmount)
              => (response' = NoResponse /\ local'[p].amount = a)
  /\ \A p \in Procs :
       (pc[p] = "create" /\ pc'[p] = "flag") =>
         /\ BagCardinality(payments') = BagCardinality(payments) + 1
         /\ TotalPaid(payments', local[p].invoiceId)
              = PaidSum(local[p].invoiceId) + local[p].amount
C13_ExceedsDueExactly == [][C13_Act]_vars

\* C13 witness: an invoice paid up to its total by a second payment that
\* reached the total exactly, and a further payment just refused.
C13_Witness ==
  /\ response.call.kind = "addPayment" /\ response.result = "PaymentExceedsDue"
  /\ \E i \in DOMAIN invoices :
       /\ i = response.call.id
       /\ PaymentCount(i) = 2
       /\ PaidSum(i) = invoices[i].totalAmount

\* C14: when the addPayment calls on an invoice have not overlapped, the
\* invoice a successful call returns and stores has isPaid equal to
\* (sum of its payments, the new one included, >= totalAmount).
C14_Act ==
  (response'.result = "ok" /\ response'.call.kind = "addPayment"
     /\ <<"invoice", response'.call.id>> \notin overlapped') =>
    LET i == response'.call.id
    IN  /\ invoices'[i].isPaid
             <=> (TotalPaid(payments', i) >= invoices'[i].totalAmount)
        /\ response'.payload.invoicePaid = invoices'[i].isPaid
C14_FlagAfterSequentialPayment == [][C14_Act]_vars

\* C14 witness: a partial payment left the invoice unpaid and a second,
\* later payment has just completed it.
C14_Witness ==
  /\ response.result = "ok" /\ response.call.kind = "addPayment"
  /\ <<"invoice", response.call.id>> \notin overlapped
  /\ PaymentCount(response.call.id) = 2
  /\ invoices[response.call.id].isPaid

\* C15: what the committed tables show of a transactional settlement is all
\* or nothing: an invoice made by a settlement is never visible without its
\* event marked paid, its own isPaid set and its payment recorded, and the
\* step of a settlement that makes the event paid is the step that makes
\* that invoice and payment visible.
C15_Inv ==
  \A i \in DOMAIN invoices :
    origin[i] \in Events =>
      /\ EventPaid(origin[i])
      /\ invoices[i].isPaid
      /\ PaymentCount(i) >= 1
C15_Act ==
  \A ev \in Events :
    (SettlementStep /\ ~EventPaid(ev) /\ EventPaid(ev)') =>
      \E i \in DOMAIN invoices' \ DOMAIN invoices :
        /\ origin'[i] = ev
        /\ invoices'[i].isPaid
        /\ BagCardinality(PaymentsOf(payments', i)) >= 1
C15_NoPartialSettlementVisible == []C15_Inv /\ [][C15_Act]_vars

\* C15 witness: a settlement has done its isPaid write, its createInvoice
\* and its addPayment and has not committed; the committed tables still show
\* the event unpaid and no invoice for it.
C15_Witness ==
  \E p \in Procs :
    /\ call[p].kind \in SettleKinds /\ pc[p] = "commit"
    /\ ws[p].marked /\ DOMAIN ws[p].invoices # {}
    /\ ~EventPaid(EventOf(call[p]))
    /\ InvoicesOf(EventOf(call[p])) = {}

\* C16: a step never removes an invoice, never changes the patient, the
\* totalAmount or the items of an existing invoice, never removes or alters a
\* payment row, and changes the isPaid of an existing invoice only as the
\* flag write of an addPayment call on that invoice.
C16_Act ==
  /\ \A i \in DOMAIN invoices :
       /\ i \in DOMAIN invoices'
       /\ invoices'[i].totalAmount = invoices[i].totalAmount
       /\ invoices'[i].patientId = invoices[i].patientId
       /\ invoiceItems'[i] = invoiceItems[i]
       /\ invoices'[i].isPaid # invoices[i].isPaid =>
            \E p \in Procs : /\ call[p].kind = "addPayment" /\ pc[p] = "flag"
                             /\ local[p].invoiceId = i
                             /\ response'.slot = p
  /\ \A r \in DOMAIN payments :
       r \in DOMAIN payments' /\ payments'[r] >= payments[r]
C16_LedgerRowsImmutable == [][C16_Act]_vars

\* C16 witness: beside a settlement's invoice, an invoice made through the
\* billing endpoint has had its isPaid set by its second payment.
C16_Witness ==
  /\ \E i \in DOMAIN invoices : origin[i] \in Events
  /\ response.result = "ok" /\ response.call.kind = "addPayment"
  /\ invoices[response.call.id].isPaid
  /\ PaymentCount(response.call.id) = 2

\* C17: createInvoice answers InvalidInvoiceData and writes no row when the
\* patientId is missing or the items are not a non-empty list; otherwise it
\* adds one invoice with isPaid false and exactly the items given, in one
\* step.
C17_Act ==
  \A p \in Procs, pid \in 0..NumAppts, isArray \in BOOLEAN, items \in ItemLists :
    CreateInvoiceHandler(p, pid, isArray, items) =>
      IF pid = NoId \/ ~isArray \/ items = <<>>
      THEN /\ response'.result = "InvalidInvoiceData"
           /\ UNCHANGED <<invoices, invoiceItems, payments>>
      ELSE /\ response'.result = "ok"
           /\ payments' = payments
           /\ \E i \in DOMAIN invoices' \ DOMAIN invoices :
                /\ DOMAIN invoices' = DOMAIN invoices \cup {i}
                /\ DOMAIN invoiceItems' = DOMAIN invoiceItems \cup {i}
                /\ invoices'[i] = [patientId |-> pid, totalAmount |-> SumSeq(items),
                                   isPaid |-> FALSE]
                /\ invoiceItems'[i] = items
                /\ \A j \in DOMAIN invoices : invoices'[j] = invoices[j]
C17_CreateInvoiceValidates == [][C17_Act]_vars

\* C17 witness: createInvoice has just stored an unpaid invoice with its two
\* items.
C17_Witness ==
  /\ response.result = "ok" /\ response.call.kind = "createInvoice"
  /\ Len(invoiceItems[response.payload.invoiceId]) = 2
  /\ ~invoices[response.payload.invoiceId].isPaid

\* C18: every Payment row, committed or written inside a running
\* transaction, has a positive amount; an addPayment request whose amount is
\* not a number, is zero or is negative is answered InvalidPaymentData with
\* nothing written.
C18_Inv ==
  /\ \A r \in DOMAIN payments : r.amount > 0
  /\ \A p \in Procs : \A r \in DOMAIN ws[p].payments : r.amount > 0
C18_Act ==
  \A p \in Procs :
    (/\ pc[p] = "idle"
     /\ \/ call'[p].kind = "addPayment"
        \/ response'.slot = p /\ response'.call.kind = "addPayment") =>
      IF response'.result = "InvalidPaymentData"
      THEN UNCHANGED <<invoices, invoiceItems, payments>>
      ELSE \A t \in {"number", "string"}, a \in PayAmounts :
             (t # "number" \/ a <= 0) =>
               ~AddPaymentFind(p, IF response'.slot = p THEN response'.call.id
                                  ELSE call'[p].id, t, a)
C18_PaymentAmountsPositive == []C18_Inv /\ [][C18_Act]_vars

\* C18 witness: with a payment already on the books, the settlement of a lab
\* request whose linked price is 0 has been refused inside addPayment.
C18_Witness ==
  /\ response.call.kind = "payLabRequest"
  /\ response.result = "InvalidPaymentData"
  /\ payments # EmptyBag

\* C19: the step in which an addPayment call is refused with
\* InvalidPaymentData, NotFound or PaymentExceedsDue adds no Payment row and
\* leaves every invoice, its isPaid included, as it was.
C19_Act ==
  (/\ response'.call.kind = "addPayment"
   /\ response'.result \in {"InvalidPaymentData", "NotFound", "PaymentExceedsDue"}) =>
    UNCHANGED <<invoices, invoiceItems, payments>>
C19_FailedAddPaymentWritesNothing == [][C19_Act]_vars

\* C19 witness: a payment larger than what is still due on a partly paid
\* invoice has just been refused.
C19_Witness ==
  /\ response.call.kind = "addPayment" /\ response.result = "PaymentExceedsDue"
  /\ response.call.id \in DOMAIN invoices
  /\ PaymentCount(response.call.id) = 1
  /\ PaidSum(response.call.id) < invoices[response.call.id].totalAmount
  /\ ~invoices[response.call.id].isPaid

\* C20: the rows a settlement has committed keep their values through every
\* later step, an updatePrice or deletePrice of the price that was charged
\* included: the invoice's totalAmount and isPaid, its item and the amount of
\* its payment stay what they were, and a price update or delete changes no
\* ledger row at all.
C20_Act ==
  /\ \A i \in DOMAIN invoices :
       /\ i \in DOMAIN invoices'
       /\ invoices'[i] = invoices[i]
       /\ invoiceItems'[i] = invoiceItems[i]
       /\ PaymentsOf(payments', i) = PaymentsOf(payments, i)
  /\ response'.call.kind \in {"updatePrice", "deletePrice"}
       => UNCHANGED <<invoices, invoiceItems, payments>>
C20_BilledAmountIsACopy == [][C20_Act]_vars

\* C20 witness: the appointment fee has been changed after an appointment
\* was settled at the old amount, and the price a settled lab request was
\* charged from has been deleted; both invoices still show what was charged.
C20_Witness ==
  /\ \E i \in DOMAIN invoices :
       /\ origin[i][1] = "appointment"
       /\ 1 \in DOMAIN prices
       /\ prices[1].amount # invoices[i].totalAmount
       /\ invoiceItems[i][1].amount = invoices[i].totalAmount
       /\ PaidSum(i) = invoices[i].totalAmount
  /\ \E i \in DOMAIN invoices :
       /\ origin[i][1] = "lab"
       /\ 2 \notin DOMAIN prices
       /\ PaidSum(i) = invoices[i].totalAmount
  /\ response.call.kind = "deletePrice" /\ response.result = "ok"

\* C21: no two Price rows have the same (type, code).
C21_TypeCodeUnique ==
  \A k1, k2 \in DOMAIN prices :
    (prices[k1].type = prices[k2].type /\ prices[k1].code = prices[k2].code) => k1 = k2

\* C21 witness: of two createPrice calls for the same new key that both
\* passed the findUnique, one inserted its row and the other has just been
\* refused by the index.
C21_Witness ==
  /\ response.call.kind = "createPrice" /\ response.result = "CreateFailed"
  /\ \E k \in DOMAIN prices : prices[k].name = "New price"

\* C22: at most one APPOINTMENT price can come back from the lookup of
\* settleAppointment.
C22_CanonicalAppointmentFee == Cardinality(FindFirstPrice("APPOINTMENT")) <= 1

\* C23: settlements of different events are independent.  A step of a
\* settlement call on event A leaves the isPaid of every other event and
\* every committed invoice, item list and payment as they were; a settlement
\* call waits only for a transaction on its own event; and a settlement call
\* fails only for a reason found in its own event and the catalog (event
\* missing or paid, price missing or not positive), so overlapping calls on
\* A and B both succeed whenever each would succeed alone.
AllEvents == {<<k, id>> : k \in {"appointment", "lab"}, id \in 1..(NumAppts + 1)}
StepOfSettlementOn(ev) ==
  \E p \in Procs :
    \/ StartsSettlement(p, ev)
    \/ /\ call[p].kind \in SettleKinds /\ EventOf(call[p]) = ev
       /\ pc[p] # "idle" /\ pc'[p] # pc[p]
SucceedsAlone(ev) ==
  /\ ev \in Events
  /\ ~EventPaid(ev)
  /\ IF ev[1] = "appointment"
     THEN /\ FindFirstPrice("APPOINTMENT") # {}
          /\ \A k \in FindFirstPrice("APPOINTMENT") : prices[k].amount > 0
     ELSE /\ labs[ev[2]].priceId \in DOMAIN prices
          /\ prices[labs[ev[2]].priceId].amount > 0
C23_Frame ==
  \A A \in AllEvents :
    StepOfSettlementOn(A) =>
      /\ \A B \in Events \ {A} : EventPaid(B)' = EventPaid(B)
      /\ \A i \in DOMAIN invoices :
           /\ i \in DOMAIN invoices' /\ invoices'[i] = invoices[i]
           /\ invoiceItems'[i] = invoiceItems[i]
           /\ PaymentsOf(payments', i) = PaymentsOf(payments, i)
C23_Outcome ==
  \A A \in AllEvents :
    (/\ StepOfSettlementOn(A)
     /\ response'.call.kind \in SettleKinds /\ response'.result # "ok")
      => ~SucceedsAlone(A)
C23_NoContention ==
  \A p \in Procs :
    (call[p].kind \in SettleKinds /\ pc[p] # "idle"
     /\ ~ENABLED (PayAppointment(p) \/ PayLabRequest(p)))
      => \E q \in Procs \ {p} : ws[q].marked /\ EventOf(call[q]) = EventOf(call[p])
C23_IndependentSettlements ==
  [][C23_Frame /\ C23_Outcome]_vars /\ []C23_NoContention

\* C23 witness: the settlements of the appointment and of the lab request
\* overlapped, the appointment's has just committed with the second invoice
\* id while the lab request's, holding the first, is about to commit.
C23_Witness ==
  /\ response.call.kind = "payAppointment" /\ response.result = "ok"
  /\ response.payload.invoiceId = 2
  /\ \E p \in Procs : /\ call[p].kind = "payLabRequest" /\ pc[p] = "commit"
                      /\ local[p].invoiceId = 1

\* C24: when a settlement fails on a storage failure, the body sent in
\* production does not carry the message of the underlying error, neither
\* in msg nor in error.
C24_ProductionErrorIsGeneric ==
  (response.call.kind \in SettleKinds /\ response.result = "ServerError") =>
    LET body == SettlementCatch("production", response.call, response.result)
    IN  /\ body.msg # ThrownMessage(response.call, response.result)
        /\ body.error = ""

\* C25: every settlement call that has started finishes, with the commit or
\* with a rollback and an error result, however many other settlement calls
\* on the same or on other events overlap it.
C25_SettlementTerminates ==
  \A p \in Procs :
    (pc[p] # "idle" /\ call[p].kind \in SettleKinds)
      ~> (response.slot = p /\ response.call.kind \in SettleKinds
          /\ response.result # "none" /\ pc[p] = "idle")

\* C25 witness: a settlement call waits at its UPDATE for the row lock that
\* an overlapping call on the same event holds.
C25_Witness ==
  \E p \in Procs :
    /\ pc[p] = "mark" /\ call[p].kind \in SettleKinds
    /\ LockedByOther(p, EventOf(call[p]))

\* C26: with any price amount the catalog admits (0 included) the settlement
\* of an existing unpaid event commits: a settlement call fails only because
\* the event is missing or already paid or no price is configured.
C26_AdmissiblePriceSettles ==
  (response.call.kind \in SettleKinds /\ response.result # "ok") =>
    response.result \in {"NotFound", "AlreadyPaid", "PricingNotConfigured"}

\* C27: the failure conditions are tested in a fixed order.  A settlement
\* call on a missing event answers NotFound and one on a paid event answers
\* AlreadyPaid, whatever the catalog holds; PricingNotConfigured is answered
\* only to a call that found its event and read it unpaid.
C27_Act ==
  /\ \A p \in Procs, ev \in AllEvents :
       StartsSettlement(p, ev) =>
         IF ev \notin Events
         THEN response'.slot = p /\ response'.result = "NotFound"
         ELSE IF EventPaid(ev)
         THEN response'.slot = p /\ response'.result = "AlreadyPaid"
         ELSE response'.result \notin {"NotFound", "AlreadyPaid"}
  /\ (response'.call.kind \in SettleKinds /\ response'.result = "PricingNotConfigured")
       => /\ EventOf(response'.call) \in Events
          /\ \/ pc[response'.slot] = "price"
             \/ ~EventPaid(EventOf(response'.call))
C27_FailureOrder == [][C27_Act]_vars

\* C27 witness: with no APPOINTMENT price in the catalog, a settlement call
\* on a paid appointment has been answered AlreadyPaid.
C27_Witness ==
  /\ response.call.kind = "payAppointment" /\ response.result = "AlreadyPaid"
  /\ FindFirstPrice("APPOINTMENT") = {}

\* C28: an invoice made by a settlement has, in every state from its commit
\* on, exactly one payment, of the invoice's totalAmount; every later
\* addPayment call on it is refused and writes nothing, with
\* PaymentExceedsDue whenever the amount passes the input test.
C28_Inv ==
  \A i \in DOMAIN invoices :
    origin[i] \in Events =>
      /\ PaymentCount(i) = 1
      /\ \A r \in DOMAIN PaymentsOf(payments, i) : r.amount = invoices[i].totalAmount
C28_Act ==
  \A p \in Procs :
    (/\ pc[p] = "idle"
     /\ \/ call'[p].kind = "addPayment"
        \/ response'.slot = p /\ response'.call.kind = "addPayment") =>
      LET i == IF response'.slot = p THEN response'.call.id ELSE call'[p].id
      IN  (i \in DOMAIN invoices /\ origin[i] \in Events) =>
            /\ response'.slot = p
            /\ response'.result \in {"InvalidPaymentData", "PaymentExceedsDue"}
            /\ UNCHANGED <<invoices, invoiceItems, payments>>
            /\ response'.result = "InvalidPaymentData" =>
                 \A a \in 1..MaxAmount : ~AddPaymentFind(p, i, "number", a)
C28_SettlementInvoiceFullyPaid == []C28_Inv /\ [][C28_Act]_vars

\* C28 witness: an addPayment call on the invoice of a committed settlement
\* has just been refused with PaymentExceedsDue.
C28_Witness ==
  /\ response.call.kind = "addPayment" /\ response.result = "PaymentExceedsDue"
  /\ response.call.id \in DOMAIN invoices
  /\ origin[response.call.id] \in Events
  /\ PaymentCount(response.call.id) = 1

\* C29: the report's totalRevenue plus its pendingPayments equals the sum of
\* totalAmount over all invoices, partially paid invoices included.
C29_ReportConservative ==
  totalRevenue + pendingPayments = SumTotalAmount(DOMAIN invoices)

\* C30: a lab request with status COMPLETED is paid.  submitLabResult on an
\* unpaid lab request is answered NotPaid (403) and leaves the row, its
\* result and status included, as it was; and no step clears the isPaid of a
\* lab request.
C30_Inv ==
  \A l \in DOMAIN labs : labs[l].status = "COMPLETED" => labs[l].isPaid
C30_Act ==
  /\ \A p \in Procs, l \in DOMAIN labs :
       (/\ pc[p] = "idle" /\ ~labs[l].isPaid
        /\ \/ call'[p] = [kind |-> "submitLabResult", id |-> l]
           \/ /\ response'.slot = p
              /\ response'.call = [kind |-> "submitLabResult", id |-> l]
              /\ response'.result # "InvalidRequest")
         => /\ response'.slot = p /\ response'.result = "NotPaid"
            /\ labs' = labs
  /\ \A l \in DOMAIN labs :
       /\ l \in DOMAIN labs'
       /\ labs[l].isPaid => labs'[l].isPaid
       /\ labs'[l].status # labs[l].status =>
            /\ labs[l].isPaid /\ labs'[l].status = "COMPLETED"
            /\ response'.call = [kind |-> "submitLabResult", id |-> l]
C30_CompletedIsPaid == []C30_Inv /\ [][C30_Act]_vars

\* C30 witness: a result was refused for a lab request that is unpaid in the
\* committed table while a settlement of it has already done its isPaid
\* write inside its open transaction.
C30_Witness ==
  /\ response.call.kind = "submitLabResult" /\ response.result = "NotPaid"
  /\ labs[response.call.id].status = "REQUESTED"
  /\ labs[response.call.id].result = ""
  /\ \E q \in Procs : /\ ws[q].marked
                      /\ call[q] = [kind |-> "payLabRequest", id |-> response.call.id]
====
